---------------------------- MODULE Spec2Model ----------------------------
(***************************************************************************)
(* Model of src/appy.py: the paragraph alignment and diff classification   *)
(* of compare_documents, the word-level highlighter highlight_differences  *)
(* and the plain-text export of create_docx_report.                        *)
(*                                                                         *)
(* A text is a sequence of one-character strings, so that splitting,       *)
(* stripping, HTML escaping and tag stripping are computed character by    *)
(* character.  Positions in opcodes are Python's: 0-based, half-open.      *)
(***************************************************************************)
EXTENDS Integers, Sequences, FiniteSets, TLC

VARIABLES pc, original_paras, revised_paras, opcodes, result, report,
          a, b, marked

vars == <<pc, original_paras, revised_paras, opcodes, result, report,
          a, b, marked>>

-----------------------------------------------------------------------------
(* Bounds of the model. *)

\* longest paragraph sequence of either document
MaxParas == 2
\* most words in a highlighter input built from WordsA or WordsB
MaxTokens == 3
\* most characters in a highlighter input built from RawChars
MaxChars == 3

-----------------------------------------------------------------------------
(* Generic helpers on sequences. *)

Min(x, y) == IF x <= y THEN x ELSE y
Max(x, y) == IF x >= y THEN x ELSE y

\* s[lo:hi] of Python, on a 1-based sequence
Slice(s, lo, hi) == SubSeq(s, lo + 1, hi)

RECURSIVE Flatten(_)
Flatten(ss) == IF ss = <<>> THEN <<>> ELSE Head(ss) \o Flatten(Tail(ss))

RECURSIVE SeqsUpTo(_, _)
SeqsUpTo(S, n) ==
    IF n = 0 THEN {<<>>}
    ELSE LET prev == SeqsUpTo(S, n - 1)
         IN  prev \cup {Append(s, x) : s \in {p \in prev : Len(p) = n - 1}, x \in S}

IsPrefix(p, s) == Len(p) <= Len(s) /\ SubSeq(s, 1, Len(p)) = p
IsSuffix(p, s) == Len(p) <= Len(s) /\ SubSeq(s, Len(s) - Len(p) + 1, Len(s)) = p

-----------------------------------------------------------------------------
(* Python string operations used by the program. *)

Whitespace == {" ", "\t", "\n"}

\* str.split(): the maximal runs of non-whitespace characters, in order
RECURSIVE SplitFrom(_, _)
SplitFrom(s, cur) ==
    IF s = <<>> THEN (IF cur = <<>> THEN <<>> ELSE <<cur>>)
    ELSE IF Head(s) \in Whitespace
         THEN (IF cur = <<>> THEN <<>> ELSE <<cur>>) \o SplitFrom(Tail(s), <<>>)
         ELSE SplitFrom(Tail(s), Append(cur, Head(s)))

split(s) == SplitFrom(s, <<>>)

\* str.strip(): leading and trailing whitespace removed, the interior kept
RECURSIVE lstrip(_)
lstrip(s) == IF s # <<>> /\ Head(s) \in Whitespace THEN lstrip(Tail(s)) ELSE s

RECURSIVE rstrip(_)
rstrip(s) ==
    IF s # <<>> /\ s[Len(s)] \in Whitespace
    THEN rstrip(SubSeq(s, 1, Len(s) - 1)) ELSE s

strip(s) == rstrip(lstrip(s))

\* " ".join(words)
RECURSIVE join(_)
join(words) ==
    IF words = <<>> THEN <<>>
    ELSE IF Len(words) = 1 THEN words[1]
    ELSE words[1] \o <<" ">> \o join(Tail(words))

\* html.escape(s) with quote=True
escapeChar(c) ==
    CASE c = "&"  -> <<"&", "a", "m", "p", ";">>
      [] c = "<"  -> <<"&", "l", "t", ";">>
      [] c = ">"  -> <<"&", "g", "t", ";">>
      [] c = "\"" -> <<"&", "q", "u", "o", "t", ";">>
      [] c = "'"  -> <<"&", "#", "x", "2", "7", ";">>
      [] OTHER    -> <<c>>

escape(s) == Flatten([k \in 1..Len(s) |-> escapeChar(s[k])])

UOpen == <<"<", "u", ">">>
UClose == <<"<", "/", "u", ">">>

\* f"<u>{escape(word)}</u>"
underline(word) == UOpen \o escape(word) \o UClose

-----------------------------------------------------------------------------
(* difflib.SequenceMatcher(None, x, y) as the program uses it: no junk     *)
(* function, and sequences far shorter than the 200 elements at which the  *)
(* automatic junk heuristic starts.                                        *)

\* length of the common run of x and y starting at x[i], y[j], inside
\* x[i:ahi] and y[j:bhi]
RECURSIVE RunLen(_, _, _, _, _, _)
RunLen(x, y, i, j, ahi, bhi) ==
    IF i < ahi /\ j < bhi /\ x[i + 1] = y[j + 1]
    THEN 1 + RunLen(x, y, i + 1, j + 1, ahi, bhi)
    ELSE 0

\* find_longest_match(alo, ahi, blo, bhi): the longest matching block; of
\* those the one starting earliest in x, and of those earliest in y;
\* (alo, blo, 0) when nothing matches
find_longest_match(x, y, alo, ahi, blo, bhi) ==
    LET Cells == {c \in (alo..(ahi - 1)) \X (blo..(bhi - 1)) :
                     x[c[1] + 1] = y[c[2] + 1]}
    IN  IF Cells = {} THEN <<alo, blo, 0>>
        ELSE LET len(c) == RunLen(x, y, c[1], c[2], ahi, bhi)
                 best == CHOOSE c \in Cells :
                            \A d \in Cells :
                               \/ len(d) < len(c)
                               \/ len(d) = len(c) /\ c[1] < d[1]
                               \/ len(d) = len(c) /\ c[1] = d[1] /\ c[2] <= d[2]
             IN  <<best[1], best[2], len(best)>>

\* the matching blocks inside x[alo:ahi], y[blo:bhi], sorted: the longest
\* match, and recursively the blocks to its left and to its right
RECURSIVE matching_blocks_in(_, _, _, _, _, _)
matching_blocks_in(x, y, alo, ahi, blo, bhi) ==
    LET m == find_longest_match(x, y, alo, ahi, blo, bhi)
        i == m[1]
        j == m[2]
        k == m[3]
    IN  IF k = 0 THEN <<>>
        ELSE (IF alo < i /\ blo < j
              THEN matching_blocks_in(x, y, alo, i, blo, j) ELSE <<>>)
             \o <<m>> \o
             (IF i + k < ahi /\ j + k < bhi
              THEN matching_blocks_in(x, y, i + k, ahi, j + k, bhi) ELSE <<>>)

\* adjacent blocks are collapsed into one
RECURSIVE collapse(_)
collapse(blocks) ==
    IF Len(blocks) <= 1 THEN blocks
    ELSE LET p == blocks[1]
             q == blocks[2]
         IN  IF p[1] + p[3] = q[1] /\ p[2] + p[3] = q[2]
             THEN collapse(<<(<<p[1], p[2], p[3] + q[3]>>)>> \o SubSeq(blocks, 3, Len(blocks)))
             ELSE <<p>> \o collapse(Tail(blocks))

\* get_matching_blocks(): the collapsed blocks and the sentinel (la, lb, 0)
get_matching_blocks(x, y) ==
    Append(collapse(matching_blocks_in(x, y, 0, Len(x), 0, Len(y))),
           <<Len(x), Len(y), 0>>)

Opcode(tag, i1, i2, j1, j2) == [tag |-> tag, i1 |-> i1, i2 |-> i2, j1 |-> j1, j2 |-> j2]

\* get_opcodes(): walk the blocks from (i, j); the gap before a block is a
\* replace, delete or insert, the block itself an equal
RECURSIVE opcodes_from(_, _, _)
opcodes_from(blocks, i, j) ==
    IF blocks = <<>> THEN <<>>
    ELSE LET ai == blocks[1][1]
             bj == blocks[1][2]
             size == blocks[1][3]
             gap == IF i < ai /\ j < bj THEN <<Opcode("replace", i, ai, j, bj)>>
                    ELSE IF i < ai THEN <<Opcode("delete", i, ai, j, bj)>>
                    ELSE IF j < bj THEN <<Opcode("insert", i, ai, j, bj)>>
                    ELSE <<>>
             eq == IF size > 0
                   THEN <<Opcode("equal", ai, ai + size, bj, bj + size)>>
                   ELSE <<>>
         IN  gap \o eq \o opcodes_from(Tail(blocks), ai + size, bj + size)

get_opcodes(x, y) == opcodes_from(get_matching_blocks(x, y), 0, 0)

-----------------------------------------------------------------------------
(* The functions of src/appy.py. *)

\* a_tokens with the underlined words left unescaped
a_tokens_unescaped(a_words, op) ==
    LET ws == Slice(a_words, op.i1, op.i2)
    IN  IF op.tag = "equal" THEN [k \in 1..Len(ws) |-> escape(ws[k])]
        ELSE IF op.tag \in {"replace", "delete"}
             THEN [k \in 1..Len(ws) |-> UOpen \o ws[k] \o UClose]
        ELSE <<>>

\* the tokens one opcode contributes to a_out: plain in an equal region,
\* underlined in a replace or delete region, none in an insert region
a_tokens(a_words, op) ==
    LET ws == Slice(a_words, op.i1, op.i2)
    IN  IF op.tag = "equal" THEN [k \in 1..Len(ws) |-> escape(ws[k])]
        ELSE IF op.tag \in {"replace", "delete"}
             THEN [k \in 1..Len(ws) |-> underline(ws[k])]
        ELSE <<>>

\* b_tokens with its second test chained to the first by elif: a replace
\* region is taken by the branch of a_out and gives b_out nothing
b_tokens_elif(b_words, op) ==
    LET ws == Slice(b_words, op.j1, op.j2)
    IN  IF op.tag = "equal" THEN [k \in 1..Len(ws) |-> escape(ws[k])]
        ELSE IF op.tag \in {"replace", "delete"} THEN <<>>
        ELSE IF op.tag = "insert" THEN [k \in 1..Len(ws) |-> underline(ws[k])]
        ELSE <<>>

\* the tokens one opcode contributes to b_out
b_tokens(b_words, op) ==
    LET ws == Slice(b_words, op.j1, op.j2)
    IN  (IF op.tag = "equal" THEN [k \in 1..Len(ws) |-> escape(ws[k])] ELSE <<>>)
        \o
        (IF op.tag \in {"replace", "insert"}
         THEN [k \in 1..Len(ws) |-> underline(ws[k])] ELSE <<>>)

\* highlight_differences(x, y): the pair of marked-up strings
highlight_differences(x, y) ==
    LET a_words == split(x)
        b_words == split(y)
        ops == get_opcodes(a_words, b_words)
        a_out == Flatten([n \in 1..Len(ops) |-> a_tokens(a_words, ops[n])])
        b_out == Flatten([n \in 1..Len(ops) |-> b_tokens(b_words, ops[n])])
    IN  <<join(a_out), join(b_out)>>

NewMark == <<"<", "N", "e", "w", ">">>
DeletedMark == <<"<", "D", "e", "l", "e", "t", "e", "d", ">">>

Record(status, orig, rev) == [Status |-> status, Original |-> orig, Revised |-> rev]

\* EqualRecords with the paragraphs escaped, as the Same rows of a replace
\* region are
EqualRecordsEscaped(o, r, i1, i2, j1, j2) ==
    [k \in 1..Min(i2 - i1, j2 - j1) |->
        [Status |-> "Same", Original |-> escape(o[i1 + k]), Revised |-> escape(r[j1 + k])]]

\* an equal region: zip(range(i1, i2), range(j1, j2)), the paragraphs as they are
EqualRecords(o, r, i1, i2, j1, j2) ==
    [k \in 1..Min(i2 - i1, j2 - j1) |-> Record("Same", o[i1 + k], r[j1 + k])]

\* one positional pair of a replace region
PairRecord(orig_raw, rev_raw) ==
    IF strip(orig_raw) = strip(rev_raw)
    THEN Record("Same", escape(orig_raw), escape(rev_raw))
    ELSE LET d == highlight_differences(orig_raw, rev_raw)
         IN  Record("Modified", d[1], d[2])

\* ReplaceRecords with the leftover loops before the loop of the pairs
ReplaceRecordsLeftoverFirst(o, r, i1, i2, j1, j2) ==
    LET len1 == i2 - i1
        len2 == j2 - j1
        min_len == Min(len1, len2)
    IN  [k \in 1..(len1 - min_len) |->
            Record("Deleted", o[i1 + min_len + k], DeletedMark)]
        \o [k \in 1..(len2 - min_len) |->
               Record("Added", NewMark, r[j1 + min_len + k])]
        \o [k \in 1..min_len |-> PairRecord(o[i1 + k], r[j1 + k])]

\* a replace region: the pairs, then the leftover originals, then the
\* leftover revised
ReplaceRecords(o, r, i1, i2, j1, j2) ==
    LET len1 == i2 - i1
        len2 == j2 - j1
        min_len == Min(len1, len2)
    IN  [k \in 1..min_len |-> PairRecord(o[i1 + k], r[j1 + k])]
        \o [k \in 1..(len1 - min_len) |->
               Record("Deleted", o[i1 + min_len + k], DeletedMark)]
        \o [k \in 1..(len2 - min_len) |->
               Record("Added", NewMark, r[j1 + min_len + k])]

\* DeleteRecords starting one paragraph late: range(i1 + 1, i2)
DeleteRecordsSkipFirst(o, i1, i2) ==
    [k \in 1..(i2 - i1 - 1) |-> Record("Deleted", o[i1 + 1 + k], DeletedMark)]

\* a delete region
DeleteRecords(o, i1, i2) ==
    [k \in 1..(i2 - i1) |-> Record("Deleted", o[i1 + k], DeletedMark)]

\* InsertRecords with the two fields exchanged
InsertRecordsSwapped(r, j1, j2) ==
    [k \in 1..(j2 - j1) |-> Record("Added", r[j1 + k], NewMark)]

\* an insert region
InsertRecords(r, j1, j2) ==
    [k \in 1..(j2 - j1) |-> Record("Added", NewMark, r[j1 + k])]

\* the records one opcode appends to result
OpcodeRecords(o, r, op) ==
    CASE op.tag = "equal"   -> EqualRecords(o, r, op.i1, op.i2, op.j1, op.j2)
      [] op.tag = "replace" -> ReplaceRecords(o, r, op.i1, op.i2, op.j1, op.j2)
      [] op.tag = "delete"  -> DeleteRecords(o, op.i1, op.i2)
      [] op.tag = "insert"  -> InsertRecords(r, op.j1, op.j2)
      [] OTHER              -> <<>>

\* compare_documents, given the opcodes of its SequenceMatcher
records_of(o, r, ops) == Flatten([n \in 1..Len(ops) |-> OpcodeRecords(o, r, ops[n])])

compare_documents(o, r) == records_of(o, r, get_opcodes(o, r))

\* re.sub(r'<.*?>', '', text): from each "<", the shortest run up to a ">"
\* on the same line is removed; a "<" with no such ">" stays
RECURSIVE strip_tags(_)
strip_tags(text) ==
    IF text = <<>> THEN <<>>
    ELSE IF Head(text) = "<"
              /\ \E k \in 2..Len(text) : text[k] \in {">", "\n"}
         THEN LET k == CHOOSE q \in 2..Len(text) :
                          /\ text[q] \in {">", "\n"}
                          /\ \A p \in 2..(q - 1) : text[p] \notin {">", "\n"}
              IN  IF text[k] = ">"
                  THEN strip_tags(SubSeq(text, k + 1, Len(text)))
                  ELSE <<Head(text)>> \o strip_tags(Tail(text))
         ELSE <<Head(text)>> \o strip_tags(Tail(text))

\* translate_status: the Korean label of a status in the report, written
\* here in Latin letters; an unknown status is its own label
translate_status(status) ==
    CASE status = "Same"     -> "dong-il"
      [] status = "Modified" -> "ilbu sujeong"
      [] status = "Added"    -> "sinseol"
      [] status = "Deleted"  -> "sakje"
      [] OTHER               -> status

IsChanged(row) == row.Status # "Same"

\* the rows create_docx_report adds to the table after the header
create_docx_report(results) ==
    LET rows == SelectSeq(results, IsChanged)
    IN  [k \in 1..Len(rows) |->
            [Label |-> translate_status(rows[k].Status),
             Original |-> strip_tags(rows[k].Original),
             Revised |-> strip_tags(rows[k].Revised)]]

-----------------------------------------------------------------------------
(* Inputs. *)

\* paragraph texts: plain, with leading whitespace, with one and with two
\* interior spaces, with markup characters, and one that reads like the
\* placeholder of an added row
Paragraphs ==
    { <<"a">>,
      <<" ", "a">>,
      <<"a", " ", "b">>,
      <<"a", " ", " ", "b">>,
      <<"a", "<", "b", ">">>,
      <<"<", "N", "e", "w", ">">> }

\* the words of the first and of the second text given to the highlighter:
\* two in common, one of its own each
WordsA ==
    { <<"t", "h", "e">>,
      <<"q", "u", "i", "c", "k">>,
      <<"f", "o", "x">> }

WordsB ==
    { <<"t", "h", "e">>,
      <<"s", "l", "o", "w">>,
      <<"f", "o", "x">> }

\* the characters of the other texts given to the highlighter: a letter,
\* whitespace, and a character that escape rewrites
RawChars == {"a", " ", "<"}

WordTextsA == {join(ws) : ws \in SeqsUpTo(WordsA, MaxTokens)}
WordTextsB == {join(ws) : ws \in SeqsUpTo(WordsB, MaxTokens)}
RawTexts == SeqsUpTo(RawChars, MaxChars)

-----------------------------------------------------------------------------
(* The document comparison: the two paragraph lists are compared, and the  *)
(* changed rows are exported when there are any.                           *)

Init ==
    /\ pc = "input"
    /\ original_paras \in SeqsUpTo(Paragraphs, MaxParas)
    /\ revised_paras \in SeqsUpTo(Paragraphs, MaxParas)
    /\ opcodes = <<>>
    /\ result = <<>>
    /\ report = <<>>
    /\ a = <<>>
    /\ b = <<>>
    /\ marked = <<>>

\* comparison_results = compare_documents(original_paragraphs, revised_paragraphs)
Compare ==
    /\ pc = "input"
    /\ opcodes' = get_opcodes(original_paras, revised_paras)
    /\ result' = compare_documents(original_paras, revised_paras)
    /\ pc' = "compared"
    /\ UNCHANGED <<original_paras, revised_paras, report, a, b, marked>>

\* filtered_results is not empty: the report is created
Export ==
    /\ pc = "compared"
    /\ SelectSeq(result, IsChanged) # <<>>
    /\ report' = create_docx_report(SelectSeq(result, IsChanged))
    /\ pc' = "exported"
    /\ UNCHANGED <<original_paras, revised_paras, opcodes, result, a, b, marked>>

\* filtered_results is empty: no report
NoReport ==
    /\ pc = "compared"
    /\ SelectSeq(result, IsChanged) = <<>>
    /\ pc' = "no_report"
    /\ UNCHANGED <<original_paras, revised_paras, opcodes, result, report, a, b, marked>>

Next == Compare \/ Export \/ NoReport

Spec == Init /\ [][Next]_vars

-----------------------------------------------------------------------------
(* The highlighter on its own: highlight_differences applied to two texts. *)

InitHL ==
    /\ pc = "hl_input"
    /\ \/ a \in WordTextsA /\ b \in WordTextsB
       \/ a \in RawTexts /\ b \in RawTexts
    /\ marked = <<>>
    /\ original_paras = <<>>
    /\ revised_paras = <<>>
    /\ opcodes = <<>>
    /\ result = <<>>
    /\ report = <<>>

Highlight ==
    /\ pc = "hl_input"
    /\ opcodes' = get_opcodes(split(a), split(b))
    /\ marked' = highlight_differences(a, b)
    /\ pc' = "hl_done"
    /\ UNCHANGED <<original_paras, revised_paras, result, report, a, b>>

NextHL == Highlight

SpecHL == InitHL /\ [][NextHL]_vars

-----------------------------------------------------------------------------
(* Vocabulary of the properties. *)

\* compare_documents has returned
Compared == pc \in {"compared", "exported", "no_report"}

\* the text with every <u> and </u> marker taken out
RECURSIVE RemoveU(_)
RemoveU(s) ==
    IF s = <<>> THEN <<>>
    ELSE IF IsPrefix(UOpen, s) THEN RemoveU(SubSeq(s, Len(UOpen) + 1, Len(s)))
    ELSE IF IsPrefix(UClose, s) THEN RemoveU(SubSeq(s, Len(UClose) + 1, Len(s)))
    ELSE <<Head(s)>> \o RemoveU(Tail(s))

\* the text holds a <u> marker
HasMark(s) == \E i \in 1..Len(s) : IsPrefix(UOpen, SubSeq(s, i, Len(s)))

\* the whitespace-separated tokens of a text, each escaped
EscapedTokens(s) == LET ws == split(s) IN [k \in 1..Len(ws) |-> escape(ws[k])]

\* a token of a highlighter output is wrapped in the emphasis marker
IsMarked(tok) == IsPrefix(UOpen, tok) /\ IsSuffix(UClose, tok)
IsUnmarked(tok) == ~IsMarked(tok)

\* s is a subsequence of t
RECURSIVE IsSubseq(_, _)
IsSubseq(s, t) ==
    IF s = <<>> THEN TRUE
    ELSE IF t = <<>> THEN FALSE
    ELSE IF Head(s) = Head(t) THEN IsSubseq(Tail(s), Tail(t))
    ELSE IsSubseq(s, Tail(t))

\* a record field shows paragraph p: as it is or escaped in a Same row, as
\* it is in an Added or Deleted row, as its escaped tokens under the markers
\* in a Modified row
BuiltFrom(status, field, p) ==
    CASE status = "Same"     -> field = p \/ field = escape(p)
      [] status = "Modified" -> RemoveU(field) = join(EscapedTokens(p))
      [] OTHER               -> field = p

\* how many records an opcode stands for
RecCount(op) ==
    CASE op.tag = "insert"  -> op.j2 - op.j1
      [] op.tag = "replace" -> Max(op.i2 - op.i1, op.j2 - op.j1)
      [] OTHER              -> op.i2 - op.i1

\* how many records stand before those of the n-th opcode
RECURSIVE Offset(_, _)
Offset(ops, n) == IF n <= 1 THEN 0 ELSE Offset(ops, n - 1) + RecCount(ops[n - 1])

OriginalNotPlaceholder(rec) == rec.Original # NewMark
RevisedNotPlaceholder(rec) == rec.Revised # DeletedMark
NotAdded(rec) == rec.Status # "Added"
NotDeleted(rec) == rec.Status # "Deleted"

\* the k-th record of recs shows the k-th paragraph of paras, on each side
CoversOriginal(recs, paras) ==
    /\ Len(recs) = Len(paras)
    /\ \A k \in 1..Len(recs) : BuiltFrom(recs[k].Status, recs[k].Original, paras[k])

CoversRevised(recs, paras) ==
    /\ Len(recs) = Len(paras)
    /\ \A k \in 1..Len(recs) : BuiltFrom(recs[k].Status, recs[k].Revised, paras[k])

-----------------------------------------------------------------------------
(* C1 *)

\* C1 as stated: the records whose Original is not the "<New>" placeholder
\* are as many as the original paragraphs and the k-th shows the k-th
\* paragraph; likewise the records whose Revised is not "<Deleted>" and the
\* revised paragraphs.
C1_CoverageByPlaceholder ==
    Compared =>
        /\ CoversOriginal(SelectSeq(result, OriginalNotPlaceholder), original_paras)
        /\ CoversRevised(SelectSeq(result, RevisedNotPlaceholder), revised_paras)

\* C1 amended: the records whose status is not Added are as many as the
\* original paragraphs and the k-th shows the k-th paragraph; likewise the
\* records whose status is not Deleted and the revised paragraphs.  No
\* paragraph is lost, duplicated or moved.
C1_CoverageByStatus ==
    Compared =>
        /\ CoversOriginal(SelectSeq(result, NotAdded), original_paras)
        /\ CoversRevised(SelectSeq(result, NotDeleted), revised_paras)

C1_Witness ==
    /\ pc = "compared"
    /\ Len(opcodes) >= 2
    /\ \E k \in 1..Len(result) : result[k].Status = "Added"
    /\ \E k \in 1..Len(result) : result[k].Status = "Deleted"

-----------------------------------------------------------------------------
(* C2 *)

\* the records of a replace opcode, standing after off earlier records: the
\* pairs, then the leftover originals as Deleted, then the leftover revised
\* as Added
ReplaceShape(op, off) ==
    LET len1 == op.i2 - op.i1
        len2 == op.j2 - op.j1
        min_len == Min(len1, len2)
    IN  /\ \A k \in 1..min_len :
              LET rec == result[off + k]
              IN  /\ rec.Status \in {"Same", "Modified"}
                  /\ BuiltFrom(rec.Status, rec.Original, original_paras[op.i1 + k])
                  /\ BuiltFrom(rec.Status, rec.Revised, revised_paras[op.j1 + k])
        /\ \A k \in 1..(len1 - min_len) :
              result[off + min_len + k] =
                  Record("Deleted", original_paras[op.i1 + min_len + k], DeletedMark)
        /\ \A k \in 1..(len2 - min_len) :
              result[off + len1 + k] =
                  Record("Added", NewMark, revised_paras[op.j1 + min_len + k])

\* C2: every replace opcode of lengths L1, L2 stands for max(L1, L2) records:
\* min(L1, L2) positional pairs, each Same or Modified, then the leftover
\* originals as Deleted with Revised "<Deleted>", then the leftover revised
\* as Added with Original "<New>".
C2_ReplaceOrder ==
    Compared =>
        /\ Len(result) = Offset(opcodes, Len(opcodes) + 1)
        /\ \A n \in 1..Len(opcodes) :
              opcodes[n].tag = "replace" => ReplaceShape(opcodes[n], Offset(opcodes, n))

C2_Witness ==
    /\ pc = "compared"
    /\ \E n \in 1..Len(opcodes) :
          /\ opcodes[n].tag = "replace"
          /\ opcodes[n].i2 - opcodes[n].i1 > opcodes[n].j2 - opcodes[n].j1
          /\ result[Offset(opcodes, n) + 1].Status = "Modified"

-----------------------------------------------------------------------------
(* C3 *)

\* C3: a pair of a replace region whose texts differ only by whitespace is
\* Same; comparing ["a  b"] with ["a b"] gives one record, and it is Same.
C3_WhitespaceOnlyIsSame ==
    Compared =>
        /\ \A n \in 1..Len(opcodes) :
              opcodes[n].tag = "replace" =>
                 \A k \in 1..Min(opcodes[n].i2 - opcodes[n].i1,
                                 opcodes[n].j2 - opcodes[n].j1) :
                    split(original_paras[opcodes[n].i1 + k])
                       = split(revised_paras[opcodes[n].j1 + k])
                    => result[Offset(opcodes, n) + k].Status = "Same"
        /\ (/\ original_paras = <<(<<"a", " ", " ", "b">>)>>
            /\ revised_paras = <<(<<"a", " ", "b">>)>>)
           => Len(result) = 1 /\ result[1].Status = "Same"

-----------------------------------------------------------------------------
(* C4 *)

\* C4: a document compared with itself gives one Same record per paragraph,
\* whose Original and Revised are both the paragraph itself.
C4_Identity ==
    (Compared /\ original_paras = revised_paras) =>
        /\ Len(result) = Len(original_paras)
        /\ \A k \in 1..Len(result) :
              result[k] = Record("Same", original_paras[k], original_paras[k])

C4_Witness ==
    /\ pc = "no_report"
    /\ original_paras = revised_paras
    /\ Len(original_paras) >= 2
    /\ \E k \in 1..Len(original_paras) : escape(original_paras[k]) # original_paras[k]

-----------------------------------------------------------------------------
(* C5 *)

\* C5: with no original paragraphs every revised paragraph is an Added
\* record with Original "<New>", in order; with no revised paragraphs every
\* original paragraph is a Deleted record with Revised "<Deleted>", in
\* order; with neither the result is empty.
C5_Degenerate ==
    Compared =>
        /\ original_paras = <<>> =>
              result = [k \in 1..Len(revised_paras) |->
                           Record("Added", NewMark, revised_paras[k])]
        /\ revised_paras = <<>> =>
              result = [k \in 1..Len(original_paras) |->
                           Record("Deleted", original_paras[k], DeletedMark)]
        /\ (original_paras = <<>> /\ revised_paras = <<>>) => result = <<>>

C5_Witness ==
    /\ Compared
    /\ original_paras = <<>>
    /\ Len(revised_paras) >= 2
    /\ Len(result) >= 2

-----------------------------------------------------------------------------
(* C6 *)

\* C6: without the <u> and </u> markers the first output of the highlighter
\* is the escaped tokens of a joined by single spaces and the second those
\* of b; empty inputs give empty outputs.
C6_TokensPreserved ==
    pc = "hl_done" =>
        /\ RemoveU(marked[1]) = join(EscapedTokens(a))
        /\ RemoveU(marked[2]) = join(EscapedTokens(b))
        /\ a = <<>> => marked[1] = <<>>
        /\ b = <<>> => marked[2] = <<>>

C6_Witness ==
    /\ pc = "hl_done"
    /\ Len(split(a)) >= 2
    /\ HasMark(marked[1])
    /\ \E k \in 1..Len(split(a)) : escape(split(a)[k]) # split(a)[k]

-----------------------------------------------------------------------------
(* C7 *)

TheQuickFox ==
    <<"t", "h", "e", " ", "q", "u", "i", "c", "k", " ", "f", "o", "x">>
TheSlowFox ==
    <<"t", "h", "e", " ", "s", "l", "o", "w", " ", "f", "o", "x">>

\* C7: the unmarked tokens of the two outputs are the same sequence, a
\* common subsequence of the tokens of a and of b; a token of a in a replace
\* or delete region is marked in the first output and a token of b in a
\* replace or insert region in the second, the tokens of equal regions are
\* not; "the quick fox" against "the slow fox" marks only "quick" and "slow";
\* texts with no common token come out wholly marked.
C7_MarksExactlyDifferences ==
    pc = "hl_done" =>
        LET a_words == split(a)
            b_words == split(b)
            a_out == split(marked[1])
            b_out == split(marked[2])
        IN  /\ SelectSeq(a_out, IsUnmarked) = SelectSeq(b_out, IsUnmarked)
            /\ IsSubseq(SelectSeq(a_out, IsUnmarked), EscapedTokens(a))
            /\ IsSubseq(SelectSeq(b_out, IsUnmarked), EscapedTokens(b))
            /\ Len(a_out) = Len(a_words)
            /\ Len(b_out) = Len(b_words)
            /\ \A n \in 1..Len(opcodes) :
                  LET op == opcodes[n]
                  IN  /\ \A i \in (op.i1 + 1)..op.i2 :
                            a_out[i] = IF op.tag = "equal"
                                       THEN escape(a_words[i])
                                       ELSE underline(a_words[i])
                      /\ \A j \in (op.j1 + 1)..op.j2 :
                            b_out[j] = IF op.tag = "equal"
                                       THEN escape(b_words[j])
                                       ELSE underline(b_words[j])
            /\ (a = TheQuickFox /\ b = TheSlowFox) =>
                  /\ marked[1] = <<"t", "h", "e", " ">> \o underline(<<"q", "u", "i", "c", "k">>)
                                    \o <<" ", "f", "o", "x">>
                  /\ marked[2] = <<"t", "h", "e", " ">> \o underline(<<"s", "l", "o", "w">>)
                                    \o <<" ", "f", "o", "x">>
            /\ ({a_words[i] : i \in 1..Len(a_words)} \cap {b_words[j] : j \in 1..Len(b_words)} = {})
                  => /\ \A i \in 1..Len(a_out) : IsMarked(a_out[i])
                     /\ \A j \in 1..Len(b_out) : IsMarked(b_out[j])

C7_Witness ==
    /\ pc = "hl_done"
    /\ a = TheQuickFox
    /\ b = TheSlowFox
    /\ Len(opcodes) = 3

-----------------------------------------------------------------------------
(* C8 *)

\* C8: every equal opcode of length n stands for n Same records, paired by
\* position, whose Original and Revised are the HTML-escaped paragraphs.
C8_EqualRecordsEscaped ==
    Compared =>
        \A n \in 1..Len(opcodes) :
           opcodes[n].tag = "equal" =>
              \A k \in 1..(opcodes[n].i2 - opcodes[n].i1) :
                 result[Offset(opcodes, n) + k] =
                    Record("Same",
                           escape(original_paras[opcodes[n].i1 + k]),
                           escape(revised_paras[opcodes[n].j1 + k]))

-----------------------------------------------------------------------------
(* C9 *)

\* C9: every Modified record holds a <u> marker in its Original or in its
\* Revised.
C9_ModifiedIsHighlighted ==
    Compared =>
        \A k \in 1..Len(result) :
           result[k].Status = "Modified" =>
              HasMark(result[k].Original) \/ HasMark(result[k].Revised)

-----------------------------------------------------------------------------
(* C10 *)

\* the paragraph a record's side shows: the records that are not Added
\* follow the original paragraphs, those not Deleted the revised ones
OriginalOf(n) == original_paras[Len(SelectSeq(SubSeq(result, 1, n), NotAdded))]
RevisedOf(n) == revised_paras[Len(SelectSeq(SubSeq(result, 1, n), NotDeleted))]

\* the positions in result of the changed records, in order
ChangedAt == SelectSeq([n \in 1..Len(result) |-> n], LAMBDA n : IsChanged(result[n]))

\* C10: in the report a field that is not a placeholder loses only its <u>
\* and </u> markers: the Original of a Deleted row is its paragraph, the
\* Revised of an Added row is its paragraph, and only a placeholder is
\* exported as the empty text.
C10_ExportKeepsContent ==
    pc = "exported" =>
        \A k \in 1..Len(report) :
           LET n == ChangedAt[k]
               rec == result[n]
           IN  /\ rec.Original # NewMark => report[k].Original = RemoveU(rec.Original)
               /\ rec.Revised # DeletedMark => report[k].Revised = RemoveU(rec.Revised)
               /\ rec.Status = "Deleted" => report[k].Original = OriginalOf(n)
               /\ rec.Status = "Added" => report[k].Revised = RevisedOf(n)
               /\ report[k].Original = <<>> => rec.Original = NewMark
               /\ report[k].Revised = <<>> => rec.Revised = DeletedMark
=============================================================================
